---------------------------- MODULE Spec2Model ----------------------------
(***************************************************************************)
(* A model of the Wordle library (src/src/lib.rs, src/src/letters.rs), of   *)
(* its variant src/src/wordle.rs, of the main loop of the CLI and of the   *)
(* Model and the board of the web front end.                               *)
(*                                                                         *)
(* A char is its Unicode code point, a string the sequence of its chars.   *)
(* Option<T> is a sequence: None is <<>>, Some(x) is <<x>>.                *)
(* A Result is a record [kind, word, err]: kind "Ok" carries word, kind    *)
(* "Err" carries err, kind "Panic" is a failed expect/unreachable/index.   *)
(*                                                                         *)
(* game, guess and out are the Game, the text of the last call and what    *)
(* the call returned; cli is the state of the main loop of the CLI, web    *)
(* the state of the Model of the web front end.                            *)
(* pin is the history a specification follows: a text and what its first   *)
(* call returned, the accepted guesses of a session, or what the variant   *)
(* of wordle.rs returned.                                                  *)
(***************************************************************************)
EXTENDS Integers, Sequences, FiniteSets, TLC

VARIABLES game, guess, out, pin, cli, web

vars == <<game, guess, out, pin, cli, web>>

---------------------------------------------------------------------------
(* Option and the three positions of letters.rs                            *)

None == <<>>

Some(x) == <<x>>

Position == {"NotInWord", "WrongPosition", "Correct"}

---------------------------------------------------------------------------
(* The static data of the valid_words module.                              *)

\* 'A'..'Z'
ALPHABET == 65..90

\* The number of letters the exhaustive part of the word list is built from
PoolSize == 3

\* E, I, R, A
PoolSeq == <<69, 73, 82, 65>>

\* The letters the exhaustive part of the word list is built from
PoolLetters == {PoolSeq[i] : i \in 1..PoolSize}

PoolWords == [1..5 -> PoolLetters]

\* Words the repository's tests show to be accepted guesses:
\* WORDY DADDY DYSON HYSON SASSY DUSTY EERIE BLEEP
TestWords ==
    { <<87, 79, 82, 68, 89>>, <<68, 65, 68, 68, 89>>, <<68, 89, 83, 79, 78>>,
      <<72, 89, 83, 79, 78>>, <<83, 65, 83, 83, 89>>, <<68, 85, 83, 84, 89>>,
      <<69, 69, 82, 73, 69>>, <<66, 76, 69, 69, 80>> }

VALID_WORDS == PoolWords \cup TestWords

\* DYSON BLEEP EERIE (the secrets of the tests), RIRIE
GOOD_WORDS ==
    { <<68, 89, 83, 79, 78>>, <<66, 76, 69, 69, 80>>, <<69, 69, 82, 73, 69>>,
      <<82, 73, 82, 73, 69>> }

---------------------------------------------------------------------------
(* char and str helpers of the Rust standard library, as the code uses     *)
(* them.                                                                   *)

\* char::to_ascii_uppercase: 'a'..'z' map to 'A'..'Z', all else is kept
char_to_ascii_uppercase(c) == IF c >= 97 /\ c <= 122 THEN c - 32 ELSE c

\* str::to_ascii_uppercase
to_ascii_uppercase(s) == [i \in 1..Len(s) |-> char_to_ascii_uppercase(s[i])]

\* str::is_ascii
is_ascii(s) == \A i \in 1..Len(s) : s[i] < 128

\* the number of bytes of a char in UTF-8
len_utf8(c) == IF c < 128 THEN 1 ELSE IF c < 2048 THEN 2 ELSE IF c < 65536 THEN 3 ELSE 4

\* str::len: the length in bytes, the sum of len_utf8 over the chars (one
\* byte for each char and one more for each bound of len_utf8 it reaches)
len(s) ==
    Len(s) + Cardinality({i \in 1..Len(s) : len_utf8(s[i]) >= 2})
           + Cardinality({i \in 1..Len(s) : len_utf8(s[i]) >= 3})
           + Cardinality({i \in 1..Len(s) : len_utf8(s[i]) >= 4})

\* str::contains(char)
contains(word, c) == \E i \in 1..Len(word) : word[i] = c

\* chars().filter(|cc| *cc == c).count()
count_char(word, c) == Cardinality({i \in 1..Len(word) : word[i] = c})

---------------------------------------------------------------------------
(* Results                                                                 *)

Ok(w) == [kind |-> "Ok", word |-> w, err |-> ""]

Err(e) == [kind |-> "Err", word |-> <<>>, err |-> e]

Panic == [kind |-> "Panic", word |-> <<>>, err |-> ""]

\* no call has returned yet
NoCall == [kind |-> "NoCall", word |-> <<>>, err |-> ""]

---------------------------------------------------------------------------
(* letters.rs                                                              *)

Letter(c, p) == [letter |-> c, position |-> p]

\* Letter::new
Letter_new(c, p) == Letter(char_to_ascii_uppercase(c), p)

\* simple_check_letter_pair taking a letter that is anywhere in the word as
\* Correct
simple_check_letter_pair_any_place(letter, expected_letter, word) ==
    IF contains(word, letter) THEN Some(Letter(letter, "Correct"))
    ELSE Some(Letter(letter, "NotInWord"))

\* simple_check_letter_pair deciding every letter by itself: a letter that is
\* in the word but not here is NotInWord, never None
simple_check_letter_pair_no_none(letter, expected_letter, word) ==
    IF letter = expected_letter THEN Some(Letter(letter, "Correct"))
    ELSE Some(Letter(letter, "NotInWord"))

\* Letter::simple_check_letter_pair
simple_check_letter_pair(letter, expected_letter, word) ==
    IF letter = expected_letter THEN Some(Letter(letter, "Correct"))
    ELSE IF ~contains(word, letter) THEN Some(Letter(letter, "NotInWord"))
    ELSE None

---------------------------------------------------------------------------
(* lib.rs: ordered_position                                                *)

\* partial_cmp with the None arm of NotInWord returning Less
partial_cmp_none_arm(this, other) ==
    Some(IF this = None
         THEN (IF other = None THEN "Equal" ELSE "Less")
         ELSE CASE this[1] = "NotInWord" ->
                     (IF other = None THEN "Less"
                      ELSE IF other = Some("NotInWord") THEN "Equal"
                      ELSE "Less")
                [] this[1] = "WrongPosition" ->
                     (IF other = None \/ other = Some("NotInWord") THEN "Greater"
                      ELSE IF other = Some("WrongPosition") THEN "Equal"
                      ELSE "Less")
                [] this[1] = "Correct" ->
                     (IF other = Some("Correct") THEN "Equal" ELSE "Greater"))

\* OrderedPosition::partial_cmp on two Option<Position>
partial_cmp(this, other) ==
    Some(IF this = None
         THEN (IF other = None THEN "Equal" ELSE "Less")
         ELSE CASE this[1] = "NotInWord" ->
                     (IF other = None THEN "Greater"
                      ELSE IF other = Some("NotInWord") THEN "Equal"
                      ELSE "Less")
                [] this[1] = "WrongPosition" ->
                     (IF other = None \/ other = Some("NotInWord") THEN "Greater"
                      ELSE IF other = Some("WrongPosition") THEN "Equal"
                      ELSE "Less")
                [] this[1] = "Correct" ->
                     (IF other = Some("Correct") THEN "Equal" ELSE "Greater"))

\* OrderedPosition::cmp
cmp(this, other) == partial_cmp(this, other)[1]

---------------------------------------------------------------------------
(* lib.rs: Game                                                            *)

\* new_keyboard_map looping over 'A'..'Z' without the 'Z'
new_keyboard_map_short == [c \in 65..89 |-> None]

\* Game::new_keyboard_map
new_keyboard_map == [c \in ALPHABET |-> None]

\* Game::new lowering the case of the chosen word
Game_new_lowercase(word) ==
    [word |-> [i \in 1..Len(word) |->
                  IF word[i] >= 65 /\ word[i] <= 90 THEN word[i] + 32 ELSE word[i]],
     keyboard |-> new_keyboard_map]

\* Game::new, for the chosen word
Game_new(word) == [word |-> to_ascii_uppercase(word), keyboard |-> new_keyboard_map]

\* is_valid_guess checking the length before the ASCII-ness
is_valid_guess_length_first(text) ==
    LET g == to_ascii_uppercase(text)
    IN  IF len(g) # 5 THEN Err("WrongWordLength")
        ELSE IF ~is_ascii(g) THEN Err("IncludesNonAscii")
        ELSE IF g \notin VALID_WORDS THEN Err("InvalidWord")
        ELSE Ok(<<>>)

\* Game::is_valid_guess
is_valid_guess(text) ==
    LET g == to_ascii_uppercase(text)
    IN  IF ~is_ascii(g) THEN Err("IncludesNonAscii")
        ELSE IF len(g) # 5 THEN Err("WrongWordLength")
        ELSE IF g \notin VALID_WORDS THEN Err("InvalidWord")
        ELSE Ok(<<>>)


\* the guess zipped with the word read from its end
zip_chars_reversed(g, word) ==
    [i \in 1..(IF Len(g) < Len(word) THEN Len(g) ELSE Len(word)) |->
        <<g[i], word[Len(word) + 1 - i]>>]

\* guess.chars().zip(self.word.chars()).collect()
zip_chars(g, word) ==
    [i \in 1..(IF Len(g) < Len(word) THEN Len(g) ELSE Len(word)) |-> <<g[i], word[i]>>]

\* optional_letters with the last entry checked against pairs[3].1
optional_letters_shifted(pairs, word) ==
    << <<pairs[1][1], simple_check_letter_pair(pairs[1][1], pairs[1][2], word)>>,
       <<pairs[2][1], simple_check_letter_pair(pairs[2][1], pairs[2][2], word)>>,
       <<pairs[3][1], simple_check_letter_pair(pairs[3][1], pairs[3][2], word)>>,
       <<pairs[4][1], simple_check_letter_pair(pairs[4][1], pairs[4][2], word)>>,
       <<pairs[5][1], simple_check_letter_pair(pairs[5][1], pairs[4][2], word)>> >>

\* the array optional_letters of make_guess
optional_letters(pairs, word) ==
    << <<pairs[1][1], simple_check_letter_pair(pairs[1][1], pairs[1][2], word)>>,
       <<pairs[2][1], simple_check_letter_pair(pairs[2][1], pairs[2][2], word)>>,
       <<pairs[3][1], simple_check_letter_pair(pairs[3][1], pairs[3][2], word)>>,
       <<pairs[4][1], simple_check_letter_pair(pairs[4][1], pairs[4][2], word)>>,
       <<pairs[5][1], simple_check_letter_pair(pairs[5][1], pairs[5][2], word)>> >>

\* the map instances_in_word_map of make_guess
instances_in_word_map(word) == [c \in ALPHABET |-> count_char(word, c)]

\* correct_letters counting every place of the guess that holds c
correct_letters_all(ol, c) == Cardinality({i \in 1..Len(ol) : ol[i][1] = c})

\* the count correct_letters of make_guess, for the letter c
correct_letters(ol, c) ==
    Cardinality({i \in 1..Len(ol) :
        /\ ol[i][2] # None
        /\ ol[i][2][1].letter = c
        /\ ol[i][2][1].position = "Correct"})

\* the map correct_letters_map of make_guess as first built: the pair of the
\* correctly placed count and the remaining places.  The subtraction is on
\* usize; a negative entry stands for the subtraction overflowing.
correct_letters_map(ol, iwm) ==
    [c \in ALPHABET |-> <<correct_letters(ol, c), iwm[c] - correct_letters(ol, c)>>]

\* the closure without the remaining_places test and decrement
resolve_letter_no_capacity(st, iwm, entry) ==
    LET orig_char == entry[1]
        opt_letter == entry[2]
    IN  IF st.panic THEN st
        ELSE IF opt_letter # None
        THEN [st EXCEPT !.word = Append(@, opt_letter[1])]
        ELSE IF orig_char \notin DOMAIN iwm \/ orig_char \notin DOMAIN st.clm
        THEN [st EXCEPT !.panic = TRUE]
        ELSE IF iwm[orig_char] > st.clm[orig_char][1]
        THEN [st EXCEPT !.word = Append(@, Letter_new(orig_char, "WrongPosition"))]
        ELSE IF iwm[orig_char] = st.clm[orig_char][1]
        THEN [st EXCEPT !.word = Append(@, Letter_new(orig_char, "NotInWord"))]
        ELSE [st EXCEPT !.panic = TRUE]

\* the closure with the last remaining place never given
resolve_letter_keeps_last_place(st, iwm, entry) ==
    LET orig_char == entry[1]
        opt_letter == entry[2]
    IN  IF st.panic THEN st
        ELSE IF opt_letter # None
        THEN [st EXCEPT !.word = Append(@, opt_letter[1])]
        ELSE IF orig_char \notin DOMAIN iwm \/ orig_char \notin DOMAIN st.clm
        THEN [st EXCEPT !.panic = TRUE]
        ELSE IF iwm[orig_char] > st.clm[orig_char][1]
        THEN IF st.clm[orig_char][2] > 1
             THEN [st EXCEPT
                     !.clm = [@ EXCEPT ![orig_char] = <<@[1], @[2] - 1>>],
                     !.word = Append(@, Letter_new(orig_char, "WrongPosition"))]
             ELSE [st EXCEPT !.word = Append(@, Letter_new(orig_char, "NotInWord"))]
        ELSE IF iwm[orig_char] = st.clm[orig_char][1]
        THEN [st EXCEPT !.word = Append(@, Letter_new(orig_char, "NotInWord"))]
        ELSE [st EXCEPT !.panic = TRUE]

\* One call of the closure given to optional_letters.map: st holds the
\* mutable correct_letters_map (clm), the letters produced so far (word) and
\* whether an expect or unreachable! has fired (panic).
resolve_letter(st, iwm, entry) ==
    LET orig_char == entry[1]
        opt_letter == entry[2]
    IN  IF st.panic THEN st
        ELSE IF opt_letter # None
        THEN [st EXCEPT !.word = Append(@, opt_letter[1])]
        ELSE IF orig_char \notin DOMAIN iwm \/ orig_char \notin DOMAIN st.clm
        THEN [st EXCEPT !.panic = TRUE]
        ELSE LET instances_in_word == iwm[orig_char]
                 instances_in_correct_positions_in_guess == st.clm[orig_char][1]
                 remaining_places == st.clm[orig_char][2]
             IN  IF instances_in_word > instances_in_correct_positions_in_guess
                 THEN IF remaining_places > 0
                      THEN [st EXCEPT
                              !.clm = [@ EXCEPT ![orig_char] = <<@[1], @[2] - 1>>],
                              !.word = Append(@, Letter_new(orig_char, "WrongPosition"))]
                      ELSE [st EXCEPT
                              !.word = Append(@, Letter_new(orig_char, "NotInWord"))]
                 ELSE IF instances_in_word = instances_in_correct_positions_in_guess
                 THEN [st EXCEPT !.word = Append(@, Letter_new(orig_char, "NotInWord"))]
                 ELSE [st EXCEPT !.panic = TRUE]

RECURSIVE map_from(_, _, _, _)
\* optional_letters.map(closure) from index i on: the array is mapped in
\* index order
map_from(st, iwm, ol, i) ==
    IF i > Len(ol) THEN st
    ELSE map_from(resolve_letter(st, iwm, ol[i]), iwm, ol, i + 1)

RECURSIVE map_back(_, _, _, _)
map_back(st, iwm, ol, i) ==
    IF i < 1 THEN st
    ELSE map_back(resolve_letter(st, iwm, ol[i]), iwm, ol, i - 1)

\* the array mapped from its last index to its first
map_letters_reversed(ol, iwm, clm) ==
    LET st == map_back([clm |-> clm, word |-> <<>>, panic |-> FALSE], iwm, ol, Len(ol))
    IN  [st EXCEPT !.word = [i \in 1..Len(st.word) |-> st.word[Len(st.word) + 1 - i]]]

\* optional_letters.map(closure)
map_letters(ol, iwm, clm) ==
    map_from([clm |-> clm, word |-> <<>>, panic |-> FALSE], iwm, ol, 1)

\* the loop body without the comparison: the last letter wins
update_key_overwrite(ks, letter) ==
    IF ks.panic THEN ks
    ELSE IF letter.letter \notin DOMAIN ks.keyboard
    THEN [ks EXCEPT !.panic = TRUE]
    ELSE [ks EXCEPT !.keyboard[letter.letter] = Some(letter.position)]

\* the loop body that passes over the NotInWord letters
update_key_no_not_in_word(ks, letter) ==
    IF ks.panic THEN ks
    ELSE IF letter.letter \notin DOMAIN ks.keyboard
    THEN [ks EXCEPT !.panic = TRUE]
    ELSE IF letter.position # "NotInWord"
            /\ cmp(Some(letter.position), ks.keyboard[letter.letter]) = "Greater"
    THEN [ks EXCEPT !.keyboard[letter.letter] = Some(letter.position)]
    ELSE ks

\* One iteration of the loop of update_keyboard: ks holds the keyboard and
\* whether the expect has fired.
update_key(ks, letter) ==
    IF ks.panic THEN ks
    ELSE IF letter.letter \notin DOMAIN ks.keyboard
    THEN [ks EXCEPT !.panic = TRUE]
    ELSE LET current_pos == ks.keyboard[letter.letter]
         IN  IF cmp(Some(letter.position), current_pos) = "Greater"
             THEN [ks EXCEPT !.keyboard[letter.letter] = Some(letter.position)]
             ELSE ks

RECURSIVE update_from(_, _, _)
\* the loop of update_keyboard from index i on
update_from(ks, letters, i) ==
    IF i > Len(letters) THEN ks
    ELSE update_from(update_key(ks, letters[i]), letters, i + 1)

\* Game::update_keyboard
update_keyboard(keyboard, letters) ==
    update_from([keyboard |-> keyboard, panic |-> FALSE], letters, 1)

\* The scoring part of make_guess, after the validation: the word produced
\* and whether the call panicked.
score_word(word, g) ==
    LET pairs == zip_chars(g, word)
    IN  IF Len(pairs) < 5 THEN [word |-> <<>>, panic |-> TRUE]
        ELSE LET ol == optional_letters(pairs, word)
                 iwm == instances_in_word_map(word)
                 clm == correct_letters_map(ol, iwm)
             IN  IF \E c \in ALPHABET : clm[c][2] < 0
                 THEN [word |-> <<>>, panic |-> TRUE]
                 ELSE LET st == map_letters(ol, iwm, clm)
                      IN  [word |-> st.word, panic |-> st.panic]

\* make_guess scoring a 5-letter ASCII text before looking it up in the list
make_guess_validates_last(g, text) ==
    LET valid == is_valid_guess(text)
    IN  IF valid.kind # "Ok" /\ valid.err # "InvalidWord" THEN [game |-> g, ret |-> valid]
        ELSE LET sc == score_word(g.word, to_ascii_uppercase(text))
             IN  IF sc.panic THEN [game |-> g, ret |-> Panic]
                 ELSE LET ks == update_keyboard(g.keyboard, sc.word)
                      IN  [game |-> [g EXCEPT !.keyboard = ks.keyboard],
                           ret |-> IF ks.panic THEN Panic
                                   ELSE IF valid.kind # "Ok" THEN valid
                                   ELSE Ok(sc.word)]

\* make_guess returning, for each letter, the position the updated keyboard
\* holds for it
make_guess_from_keyboard(g, text) ==
    LET valid == is_valid_guess(text)
    IN  IF valid.kind # "Ok" THEN [game |-> g, ret |-> valid]
        ELSE LET sc == score_word(g.word, to_ascii_uppercase(text))
             IN  IF sc.panic THEN [game |-> g, ret |-> Panic]
                 ELSE LET ks == update_keyboard(g.keyboard, sc.word)
                      IN  [game |-> [g EXCEPT !.keyboard = ks.keyboard],
                           ret |-> IF ks.panic THEN Panic
                                   ELSE Ok([i \in 1..Len(sc.word) |->
                                             Letter(sc.word[i].letter,
                                                    ks.keyboard[sc.word[i].letter][1])])]

\* make_guess with a validation of its own that checks the length first
make_guess_own_validation(g, text) ==
    LET valid == is_valid_guess_length_first(text)
    IN  IF valid.kind # "Ok" THEN [game |-> g, ret |-> valid]
        ELSE LET sc == score_word(g.word, to_ascii_uppercase(text))
             IN  IF sc.panic THEN [game |-> g, ret |-> Panic]
                 ELSE LET ks == update_keyboard(g.keyboard, sc.word)
                      IN  [game |-> [g EXCEPT !.keyboard = ks.keyboard],
                           ret |-> IF ks.panic THEN Panic ELSE Ok(sc.word)]

\* make_guess scoring the text as given, not its upper-case form
make_guess_raw_text(g, text) ==
    LET valid == is_valid_guess(text)
    IN  IF valid.kind # "Ok" THEN [game |-> g, ret |-> valid]
        ELSE LET sc == score_word(g.word, text)
             IN  IF sc.panic THEN [game |-> g, ret |-> Panic]
                 ELSE LET ks == update_keyboard(g.keyboard, sc.word)
                      IN  [game |-> [g EXCEPT !.keyboard = ks.keyboard],
                           ret |-> IF ks.panic THEN Panic ELSE Ok(sc.word)]

\* make_guess storing the accepted guess as the word of the game
make_guess_keeps_guess(g, text) ==
    LET valid == is_valid_guess(text)
    IN  IF valid.kind # "Ok" THEN [game |-> g, ret |-> valid]
        ELSE LET sc == score_word(g.word, to_ascii_uppercase(text))
             IN  IF sc.panic THEN [game |-> g, ret |-> Panic]
                 ELSE LET ks == update_keyboard(g.keyboard, sc.word)
                      IN  [game |-> [word |-> to_ascii_uppercase(text),
                                     keyboard |-> ks.keyboard],
                           ret |-> IF ks.panic THEN Panic ELSE Ok(sc.word)]

\* Game::make_guess on the game g: the game after the call and the value
\* returned
make_guess(g, text) ==
    LET valid == is_valid_guess(text)
    IN  IF valid.kind # "Ok" THEN [game |-> g, ret |-> valid]
        ELSE LET sc == score_word(g.word, to_ascii_uppercase(text))
             IN  IF sc.panic THEN [game |-> g, ret |-> Panic]
                 ELSE LET ks == update_keyboard(g.keyboard, sc.word)
                      IN  [game |-> [g EXCEPT !.keyboard = ks.keyboard],
                           ret |-> IF ks.panic THEN Panic ELSE Ok(sc.word)]

---------------------------------------------------------------------------
(* The keyboard lookups of the two front ends                              *)

\* Q W E R T Y U I O P
ROW_1 == <<81, 87, 69, 82, 84, 89, 85, 73, 79, 80>>

\* A S D F G H J K L
ROW_2 == <<65, 83, 68, 70, 71, 72, 74, 75, 76>>

\* Z X C V B N M
ROW_3 == <<90, 88, 67, 86, 66, 78, 77>>

\* print_keyboard of the CLI: TRUE when one of its expect calls fails
print_keyboard_panics(keyboard) ==
    \E row \in {ROW_1, ROW_2, ROW_3} :
        \E i \in 1..Len(row) : row[i] \notin DOMAIN keyboard

\* KeyboardComp::view of the web front end: TRUE when get_key panics for one
\* of the keys it draws
KeyboardComp_view_panics(map) ==
    \E letter \in {81, 87, 69, 82, 84, 89, 85, 73, 79, 80,
                   65, 83, 68, 70, 71, 72, 74, 75, 76,
                   90, 88, 67, 86, 66, 78, 77} :
        letter \notin DOMAIN map

---------------------------------------------------------------------------
(* The inputs                                                              *)

\* a text in lower case
Lower(w) == [i \in 1..Len(w) |-> IF w[i] >= 65 /\ w[i] <= 90 THEN w[i] + 32 ELSE w[i]]

\* the texts the tests reject: "spurg" "HYiiA" "olleh" "Öster" "Złoty"
\* "Schrödinger" "" "hi" "this should fail"; and "Öste", "EERIES", "eeri"
InvalidTexts ==
    { <<115, 112, 117, 114, 103>>, <<72, 89, 105, 105, 65>>,
      <<111, 108, 108, 101, 104>>,
      <<214, 115, 116, 101, 114>>, <<90, 322, 111, 116, 121>>,
      <<83, 99, 104, 114, 246, 100, 105, 110, 103, 101, 114>>,
      <<>>, <<104, 105>>,
      <<116, 104, 105, 115, 32, 115, 104, 111, 117, 108, 100, 32, 102, 97, 105, 108>>,
      <<214, 115, 116, 101>>, <<69, 69, 82, 73, 69, 83>>, <<101, 101, 114, 105>> }

\* mixed-case texts of the tests: "dySOn" "HySoN"
MixedTexts == { <<100, 121, 83, 79, 110>>, <<72, 121, 83, 111, 78>> }

\* the texts of the scoring specification
Texts ==
    VALID_WORDS \cup {Lower(w) : w \in TestWords} \cup MixedTexts \cup InvalidTexts

\* the letters of the exhaustive part of the secret words: E, R
SecretLetters == {69, 82}

\* the secret words of the scoring specification
SecretWords == [1..5 -> SecretLetters] \cup GOOD_WORDS

\* the texts of a session: WORDY DADDY "dySOn" "sassy" "eerie" BLEEP "ireee",
\* and "olleh" "Öster" "hi"
SessionTexts ==
    { <<87, 79, 82, 68, 89>>, <<68, 65, 68, 68, 89>>, <<100, 121, 83, 79, 110>>,
      <<115, 97, 115, 115, 121>>, <<101, 101, 114, 105, 101>>,
      <<66, 76, 69, 69, 80>>, <<105, 114, 101, 101, 101>>,
      <<111, 108, 108, 101, 104>>, <<214, 115, 116, 101, 114>>, <<104, 105>> }

\* the texts whose first result a session remembers: "sassy" "ireee" "olleh"
PinTexts ==
    { <<115, 97, 115, 115, 121>>, <<105, 114, 101, 101, 101>>,
      <<111, 108, 108, 101, 104>> }

\* the CLI when its main is not running
CliOff == [pc |-> "off", remaining_guesses |-> 0, past_guesses |-> <<>>,
           prefix |-> 0, message |-> ""]

\* the web front end when no Model has been created
WebOff == [guesses |-> <<>>, current_guess |-> None, bad_guess |-> FALSE,
           panicked |-> FALSE]

\* pin when no text is followed
NoPin == [guess |-> <<>>, out |-> NoCall, again |-> FALSE]

---------------------------------------------------------------------------
(* A session: a Game from Game::new and any sequence of make_guess calls.  *)
(* pin is a history variable: the text pin.guess is picked at the start,   *)
(* pin.out is what the first call with that text returned, and pin.again   *)
(* tells that the text has been submitted once more since.                 *)

Init ==
    \E w \in GOOD_WORDS, t \in PinTexts :
        /\ game = Game_new(w)
        /\ guess = <<>>
        /\ out = NoCall
        /\ pin = [guess |-> t, out |-> NoCall, again |-> FALSE]
        /\ cli = CliOff
        /\ web = WebOff

MakeGuess(text) ==
    /\ out.kind # "Panic"
    /\ LET r == make_guess(game, text)
       IN  /\ game' = r.game
           /\ guess' = text
           /\ out' = r.ret
           /\ pin' = IF text # pin.guess THEN pin
                     ELSE IF pin.out = NoCall THEN [pin EXCEPT !.out = r.ret]
                     ELSE [pin EXCEPT !.again = TRUE]
    /\ UNCHANGED <<cli, web>>

Next == \E text \in SessionTexts : MakeGuess(text)

Spec == Init /\ [][Next]_vars

---------------------------------------------------------------------------
(* Scoring: one make_guess call on a Game with any secret word and any     *)
(* text.                                                                   *)

InitScore ==
    \E w \in SecretWords, t \in Texts :
        /\ game = [word |-> w, keyboard |-> new_keyboard_map]
        /\ guess = t
        /\ out = NoCall
        /\ pin = [guess |-> t, out |-> NoCall, again |-> FALSE]
        /\ cli = CliOff
        /\ web = WebOff

Score ==
    /\ out = NoCall
    /\ LET r == make_guess(game, guess)
       IN  /\ game' = r.game
           /\ out' = r.ret
           /\ pin' = [pin EXCEPT !.out = r.ret]
           /\ UNCHANGED <<guess, cli, web>>

NextScore == Score

SpecScore == InitScore /\ [][NextScore]_vars

---------------------------------------------------------------------------
(* One call of Letter::simple_check_letter_pair: guess holds the letter    *)
(* and the expected letter, game.word the word, out.word the Option<Letter> *)
(* returned.                                                               *)

\* the letters of the pairs: D E I R and 'e'
PairLetters == {68, 69, 73, 82, 101}

InitPair ==
    \E w \in SecretWords, letter \in PairLetters, expected_letter \in PairLetters :
        /\ game = [word |-> w, keyboard |-> new_keyboard_map]
        /\ guess = <<letter, expected_letter>>
        /\ out = NoCall
        /\ pin = NoPin
        /\ cli = CliOff
        /\ web = WebOff

CheckPair ==
    /\ out = NoCall
    /\ out' = [kind |-> "Returned",
               word |-> simple_check_letter_pair(guess[1], guess[2], game.word),
               err |-> ""]
    /\ UNCHANGED <<game, guess, pin, cli, web>>

NextPair == CheckPair

SpecPair == InitPair /\ [][NextPair]_vars

---------------------------------------------------------------------------
(* The main loop of the CLI (src/cli/src/main.rs and src/src/bin/cli.rs).  *)
(* cli.pc is where main is: "loop" at the head of the loop, "prompt"       *)
(* inside Text::prompt, "won", "lost" and "quit" after the three breaks,   *)
(* "panic" after a panic.  cli.prefix is the attempt number of the prompt  *)
(* prefix, cli.message the last message shown.                             *)

\* the number of guesses of a game
TOTAL_GUESSES == 6

\* the texts typed at the prompt: "eerie" RIRIE "sassy", and "olleh" "hi"
CliTexts ==
    { <<101, 101, 114, 105, 101>>, <<82, 73, 82, 73, 69>>,
      <<115, 97, 115, 115, 121>>,
      <<111, 108, 108, 101, 104>>, <<104, 105>> }

\* create_render_config with its arms on 5 down to 0
create_render_config_from_zero(guesses) ==
    CASE guesses = 5 -> [panic |-> FALSE, prefix |-> 1]
      [] guesses = 4 -> [panic |-> FALSE, prefix |-> 2]
      [] guesses = 3 -> [panic |-> FALSE, prefix |-> 3]
      [] guesses = 2 -> [panic |-> FALSE, prefix |-> 4]
      [] guesses = 1 -> [panic |-> FALSE, prefix |-> 5]
      [] guesses = 0 -> [panic |-> FALSE, prefix |-> 6]
      [] OTHER -> [panic |-> TRUE, prefix |-> 0]

\* create_render_config: the attempt number n of the prefix "(n/6) >", or the
\* unreachable! arm
create_render_config(guesses) ==
    CASE guesses = 6 -> [panic |-> FALSE, prefix |-> 1]
      [] guesses = 5 -> [panic |-> FALSE, prefix |-> 2]
      [] guesses = 4 -> [panic |-> FALSE, prefix |-> 3]
      [] guesses = 3 -> [panic |-> FALSE, prefix |-> 4]
      [] guesses = 2 -> [panic |-> FALSE, prefix |-> 5]
      [] guesses = 1 -> [panic |-> FALSE, prefix |-> 6]
      [] OTHER -> [panic |-> TRUE, prefix |-> 0]

\* the validator closure of main
validator(input) == is_valid_guess(input)

\* the body of the loop after make_guess has returned letters, with the
\* decrement made before the test for a win
cli_after_guess_early_decrement(c, letters) ==
    LET pushed == [c EXCEPT !.past_guesses = Append(@, letters),
                            !.remaining_guesses = @ - 1]
    IN  IF Cardinality({i \in 1..Len(letters) : letters[i].position = "Correct"}) = 5
        THEN [pushed EXCEPT !.pc = "won", !.message = "Congratulations!"]
        ELSE [pushed EXCEPT !.pc = "loop"]

\* the body of the loop after make_guess has returned letters, without the
\* test for a win
cli_after_guess_no_win_check(c, letters) ==
    LET pushed == [c EXCEPT !.past_guesses = Append(@, letters)]
    IN  IF pushed.remaining_guesses = 0
        THEN [pushed EXCEPT !.pc = "panic"]
        ELSE [pushed EXCEPT !.pc = "loop", !.remaining_guesses = @ - 1]

\* the body of the loop after make_guess has returned letters: the push, the
\* test for a win and the decrement
cli_after_guess(c, letters) ==
    LET pushed == [c EXCEPT !.past_guesses = Append(@, letters)]
    IN  IF Cardinality({i \in 1..Len(letters) : letters[i].position = "Correct"}) = 5
        THEN [pushed EXCEPT !.pc = "won", !.message = "Congratulations!"]
        ELSE IF pushed.remaining_guesses = 0
        THEN [pushed EXCEPT !.pc = "panic"]
        ELSE [pushed EXCEPT !.pc = "loop", !.remaining_guesses = @ - 1]

InitCli ==
    \E w \in GOOD_WORDS :
        /\ game = Game_new(w)
        /\ guess = <<>>
        /\ out = NoCall
        /\ pin = NoPin
        /\ cli = [pc |-> "loop", remaining_guesses |-> TOTAL_GUESSES,
                  past_guesses |-> <<>>, prefix |-> 0, message |-> "Welcome to Wordle!"]
        /\ web = WebOff

\* the head of the loop: out of guesses, or the prompt is set up
CliLoopHead ==
    /\ cli.pc = "loop"
    /\ cli' = IF cli.remaining_guesses = 0
              THEN [cli EXCEPT !.pc = "lost", !.message = "Out of guesses!"]
              ELSE LET config == create_render_config(cli.remaining_guesses)
                   IN  IF config.panic THEN [cli EXCEPT !.pc = "panic"]
                       ELSE [cli EXCEPT !.pc = "prompt", !.prefix = config.prefix]
    /\ UNCHANGED <<game, guess, out, pin, web>>

\* a text the validator rejects: the prompt shows the error and goes on
CliRejects(text) ==
    /\ cli.pc = "prompt"
    /\ validator(text).kind = "Err"
    /\ cli' = [cli EXCEPT !.message = validator(text).err]
    /\ UNCHANGED <<game, guess, out, pin, web>>

\* a text the validator accepts: the prompt returns it and the body of the
\* loop runs
CliSubmits(text) ==
    /\ cli.pc = "prompt"
    /\ validator(text).kind = "Ok"
    /\ LET r == make_guess(game, text)
       IN  /\ game' = r.game
           /\ guess' = text
           /\ out' = r.ret
           /\ cli' = IF r.ret.kind # "Ok" THEN [cli EXCEPT !.pc = "panic"]
                     ELSE cli_after_guess(cli, r.ret.word)
    /\ UNCHANGED <<pin, web>>

\* the prompt is cancelled
CliCancels ==
    /\ cli.pc = "prompt"
    /\ cli' = [cli EXCEPT !.pc = "quit", !.message = "Thanks for playing Wordle!"]
    /\ UNCHANGED <<game, guess, out, pin, web>>

NextCli ==
    \/ CliLoopHead
    \/ \E text \in CliTexts : CliRejects(text)
    \/ \E text \in CliTexts : CliSubmits(text)
    \/ CliCancels

SpecCli == InitCli /\ [][NextCli]_vars

---------------------------------------------------------------------------
(* The Model component of the web front end (src/web/src/main.rs).  A      *)
(* model m is [game, web]: the Game of the Model and its other fields;     *)
(* web.panicked is set when update has hit an unreachable! arm.            *)

\* the longest guesses list the sessions of SpecWeb are followed to
MaxWebGuesses == 7

\* the words typed in the browser: "eerie" on the keys of the machine, RIRIE
\* on the buttons of the page, and "olleh", which is no word
WebWords ==
    { <<101, 101, 114, 105, 101>>, <<82, 73, 82, 73, 69>>,
      <<111, 108, 108, 101, 104>> }

\* the letters of the AddToCurrentGuess messages
WebKeys == {w[i] : w \in WebWords, i \in 1..5}

\* char::to_uppercase on the letters of Latin-1
char_to_uppercase(c) ==
    IF c >= 97 /\ c <= 122 THEN c - 32
    ELSE IF c >= 224 /\ c <= 254 /\ c # 247 THEN c - 32
    ELSE c

\* String::to_uppercase
to_uppercase(s) == [i \in 1..Len(s) |-> char_to_uppercase(s[i])]

\* the keys of the keydown events: "e" "R" "ö" "1" "Enter" "Backspace" "Shift"
WebKeyEvents ==
    { <<101>>, <<82>>, <<246>>, <<49>>, <<69, 110, 116, 101, 114>>,
      <<66, 97, 99, 107, 115, 112, 97, 99, 101>>, <<83, 104, 105, 102, 116>> }

\* char::to_ascii_lowercase
char_to_ascii_lowercase(c) == IF c >= 65 /\ c <= 90 THEN c + 32 ELSE c

\* str::to_ascii_lowercase
to_ascii_lowercase(s) == [i \in 1..Len(s) |-> char_to_ascii_lowercase(s[i])]

\* a ModelMsg
Msg(name, letter) == [msg |-> name, letter |-> letter]

\* the callback of the keydown listener set up by Model::rendered: the message
\* sent for the key of the event
rendered_callback(event_key) ==
    LET key == to_ascii_lowercase(event_key)
    IN  IF len(key) = 1 /\ to_ascii_uppercase(key)[1] \in ALPHABET
        THEN Msg("AddToCurrentGuess", key[1])
        ELSE IF key = <<101, 110, 116, 101, 114>> THEN Msg("SendEnter", 0)
        ELSE IF key = <<98, 97, 99, 107, 115, 112, 97, 99, 101>>
        THEN Msg("SendBackspace", 0)
        ELSE Msg("DoNothing", 0)

\* Model::create
Model_create(word) ==
    [game |-> Game_new(word),
     web |-> [guesses |-> <<>>, current_guess |-> None, bad_guess |-> FALSE,
              panicked |-> FALSE]]

\* the Model before update runs: m.call is None, and update puts there the
\* text it passes to Game::make_guess and the value returned
TheModel == [game |-> game, web |-> web, call |-> None]

\* update on MakeGuess(text) that pushes and leaves the current guess
update_MakeGuess_keeps_current(m, text) ==
    LET r == make_guess(m.game, text)
        called == Some([text |-> text, ret |-> r.ret])
    IN  IF r.ret.kind = "Ok"
        THEN [game |-> r.game,
              web |-> [m.web EXCEPT !.guesses = Append(@, r.ret.word)],
              call |-> called]
        ELSE IF r.ret = Err("InvalidWord")
        THEN [game |-> r.game, web |-> [m.web EXCEPT !.bad_guess = TRUE],
              call |-> called]
        ELSE [game |-> r.game, web |-> [m.web EXCEPT !.panicked = TRUE],
              call |-> called]

\* update on MakeGuess(text)
update_MakeGuess(m, text) ==
    LET r == make_guess(m.game, text)
        called == Some([text |-> text, ret |-> r.ret])
    IN  IF r.ret.kind = "Ok"
        THEN [game |-> r.game,
              web |-> [m.web EXCEPT !.guesses = Append(@, r.ret.word),
                                    !.current_guess = None],
              call |-> called]
        ELSE IF r.ret = Err("InvalidWord")
        THEN [game |-> r.game, web |-> [m.web EXCEPT !.bad_guess = TRUE],
              call |-> called]
        ELSE [game |-> r.game, web |-> [m.web EXCEPT !.panicked = TRUE],
              call |-> called]

\* update on AddToCurrentGuess(letter) without the test of the length
update_AddToCurrentGuess_no_limit(m, letter) ==
    IF m.web.current_guess # None
    THEN [m EXCEPT !.web.current_guess = Some(Append(m.web.current_guess[1], letter))]
    ELSE [m EXCEPT !.web.current_guess = Some(<<letter>>)]

\* update on AddToCurrentGuess(letter)
update_AddToCurrentGuess(m, letter) ==
    IF m.web.current_guess # None
    THEN LET letters == m.web.current_guess[1]
         IN  IF Len(letters) < 5
             THEN [m EXCEPT !.web.current_guess = Some(Append(letters, letter))]
             ELSE m
    ELSE [m EXCEPT !.web.current_guess = Some(<<letter>>)]

\* update on SendEnter that submits a current guess of any length
update_SendEnter_any_length(m) ==
    IF m.web.current_guess # None
    THEN update_MakeGuess(m, to_uppercase(m.web.current_guess[1]))
    ELSE [m EXCEPT !.web.bad_guess = TRUE]

\* update on SendEnter
update_SendEnter(m) ==
    IF m.web.current_guess # None /\ Len(m.web.current_guess[1]) = 5
    THEN update_MakeGuess(m, to_uppercase(m.web.current_guess[1]))
    ELSE [m EXCEPT !.web.bad_guess = TRUE]

\* update on SendBackspace
update_SendBackspace(m) ==
    IF m.web.current_guess # None /\ Len(m.web.current_guess[1]) > 0
    THEN LET chars == m.web.current_guess[1]
         IN  [m EXCEPT !.web.current_guess = Some(SubSeq(chars, 1, Len(chars) - 1))]
    ELSE m

\* Model::update on the messages of the keys and buttons
update(m, msg) ==
    CASE msg.msg = "AddToCurrentGuess" -> update_AddToCurrentGuess(m, msg.letter)
      [] msg.msg = "SendEnter" -> update_SendEnter(m)
      [] msg.msg = "SendBackspace" -> update_SendBackspace(m)
      [] OTHER -> m

\* the letter is the next letter of one of the words typed, or the current
\* guess is full
TypesAWord(current_guess, letter) ==
    LET typed == IF current_guess = None THEN <<>> ELSE current_guess[1]
    IN  IF Len(typed) >= 5 THEN TRUE
        ELSE \E w \in WebWords : SubSeq(w, 1, Len(typed) + 1) = Append(typed, letter)

\* the message is sent while the session is followed
Followed(msg, m) ==
    /\ ~web.panicked
    /\ IF msg.msg = "AddToCurrentGuess"
       THEN TypesAWord(web.current_guess, msg.letter) ELSE TRUE
    /\ Len(m.web.guesses) <= MaxWebGuesses

\* the text update passed to Game::make_guess, or the text of the call before
call_text(m) == IF m.call = None THEN guess ELSE m.call[1].text

\* the value Game::make_guess returned to update, or that of the call before
call_ret(m) == IF m.call = None THEN out ELSE m.call[1].ret

InitWeb ==
    \E w \in GOOD_WORDS :
        /\ game = Model_create(w).game
        /\ web = Model_create(w).web
        /\ guess = <<>>
        /\ out = NoCall
        /\ pin = NoPin
        /\ cli = CliOff

\* a keydown event: the listener sends the message of its callback
KeyDown(event_key) ==
    \E msg \in {rendered_callback(event_key)} :
        \E m \in {update(TheModel, msg)} :
            /\ Followed(msg, m)
            /\ game' = m.game
            /\ web' = m.web
            /\ guess' = call_text(m)
            /\ out' = call_ret(m)
            /\ UNCHANGED <<pin, cli>>

\* a key of the machine or a button of the page sends AddToCurrentGuess
AddToCurrentGuess(letter) ==
    \E msg \in {Msg("AddToCurrentGuess", letter)} :
        \E m \in {update_AddToCurrentGuess(TheModel, msg.letter)} :
            /\ Followed(msg, m)
            /\ game' = m.game
            /\ web' = m.web
            /\ guess' = call_text(m)
            /\ out' = call_ret(m)
            /\ UNCHANGED <<pin, cli>>

\* the enter key or the enter button sends SendEnter
SendEnter ==
    \E msg \in {Msg("SendEnter", 0)} :
        \E m \in {update_SendEnter(TheModel)} :
            /\ Followed(msg, m)
            /\ game' = m.game
            /\ web' = m.web
            /\ guess' = call_text(m)
            /\ out' = call_ret(m)
            /\ UNCHANGED <<pin, cli>>

\* the backspace key or the backspace button sends SendBackspace
SendBackspace ==
    \E msg \in {Msg("SendBackspace", 0)} :
        \E m \in {update_SendBackspace(TheModel)} :
            /\ Followed(msg, m)
            /\ game' = m.game
            /\ web' = m.web
            /\ guess' = call_text(m)
            /\ out' = call_ret(m)
            /\ UNCHANGED <<pin, cli>>

\* Model::view reads bad_guess and puts false back
View ==
    /\ ~web.panicked
    /\ web.bad_guess
    /\ web' = [web EXCEPT !.bad_guess = FALSE]
    /\ UNCHANGED <<game, guess, out, pin, cli>>

NextWeb ==
    \/ \E event_key \in WebKeyEvents : KeyDown(event_key)
    \/ \E letter \in WebKeys : AddToCurrentGuess(letter)
    \/ SendEnter
    \/ SendBackspace
    \/ View

SpecWeb == InitWeb /\ [][NextWeb]_vars

---------------------------------------------------------------------------
(* OrderedPosition::cmp on its own: guess holds three Option<Position>     *)
(* a, b, c, and out.word the orderings cmp returns for the pairs of them.  *)

\* the four values of Option<Position>
OptionPositions == {None} \cup {Some(p) : p \in Position}

\* Ord::cmp with its expect: the Ordering, or "Panic" when partial_cmp gives
\* None
cmp_expect(this, other) ==
    IF partial_cmp(this, other) = None THEN "Panic" ELSE cmp(this, other)

InitCmp ==
    \E a \in OptionPositions, b \in OptionPositions, c \in OptionPositions :
        /\ game = [word |-> <<>>, keyboard |-> new_keyboard_map]
        /\ guess = <<a, b, c>>
        /\ out = NoCall
        /\ pin = NoPin
        /\ cli = CliOff
        /\ web = WebOff

Compare ==
    /\ out = NoCall
    /\ out' = [kind |-> "Returned",
               word |-> [aa |-> cmp_expect(guess[1], guess[1]),
                         ab |-> cmp_expect(guess[1], guess[2]),
                         ba |-> cmp_expect(guess[2], guess[1]),
                         bc |-> cmp_expect(guess[2], guess[3]),
                         ac |-> cmp_expect(guess[1], guess[3])],
               err |-> ""]
    /\ UNCHANGED <<game, guess, pin, cli, web>>

NextCmp == Compare

SpecCmp == InitCmp /\ [][NextCmp]_vars

---------------------------------------------------------------------------
(* BoardComp::view (src/web/src/board.rs) on its own: web holds the props   *)
(* of the board, out.word the six rows rendered.                           *)

\* the results among the guesses of the props: EERIE and RIRIE scored
\* against EERIE
BoardResults ==
    {score_word(<<69, 69, 82, 73, 69>>, w).word :
        w \in {<<69, 69, 82, 73, 69>>, <<82, 73, 82, 73, 69>>}}

\* the current guesses of the props: None, nothing typed, "ee", "eerie"
BoardCurrentGuesses ==
    {None, Some(<<>>), Some(<<101, 101>>), Some(<<101, 101, 114, 105, 101>>)}

\* get_row with every row from the number of guesses on a CurrentGuess row
get_row_no_empty(props, index) ==
    IF index + 1 <= Len(props.guesses)
    THEN [state |-> "Concrete", letters |-> props.guesses[index + 1],
          should_shake |-> FALSE]
    ELSE [state |-> "CurrentGuess",
          letters |-> IF props.current_guess = None THEN <<>>
                      ELSE props.current_guess[1],
          should_shake |-> props.bad_guess]

\* the closure get_row of BoardComp::view: the RowPropState of the row, what
\* it holds, and should_shake
get_row(props, index) ==
    IF index + 1 <= Len(props.guesses)
    THEN [state |-> "Concrete", letters |-> props.guesses[index + 1],
          should_shake |-> FALSE]
    ELSE IF index = Len(props.guesses)
    THEN [state |-> "CurrentGuess",
          letters |-> IF props.current_guess = None THEN <<>>
                      ELSE props.current_guess[1],
          should_shake |-> props.bad_guess]
    ELSE [state |-> "Empty", letters |-> <<>>, should_shake |-> FALSE]

\* BoardComp::view: get_row(0) to get_row(5)
BoardComp_view(props) == [index \in 0..5 |-> get_row(props, index)]

InitBoard ==
    \E n \in 0..MaxWebGuesses, c \in BoardCurrentGuesses, b \in BOOLEAN :
        \E gs \in [1..n -> BoardResults] :
            /\ game = Game_new(<<69, 69, 82, 73, 69>>)
            /\ web = [guesses |-> gs, current_guess |-> c, bad_guess |-> b,
                      panicked |-> FALSE]
            /\ guess = <<>>
            /\ out = NoCall
            /\ pin = NoPin
            /\ cli = CliOff

Render ==
    /\ out = NoCall
    /\ out' = [kind |-> "Returned", word |-> BoardComp_view(web), err |-> ""]
    /\ UNCHANGED <<game, guess, pin, cli, web>>

NextBoard == Render

SpecBoard == InitBoard /\ [][NextBoard]_vars

---------------------------------------------------------------------------
(* A session with its history: make_guess calls on one Game from Game::new, *)
(* with pin.accepted the accepted guesses, upper-cased, in the order of the *)
(* calls.                                                                  *)

\* the longest history of accepted guesses the sessions are followed to
MaxAccepted == 4

\* the texts of the session: EERIE "ririe" BLEEP DYSON and "olleh"
HistoryTexts ==
    { <<69, 69, 82, 73, 69>>, <<114, 105, 114, 105, 101>>,
      <<66, 76, 69, 69, 80>>, <<68, 89, 83, 79, 78>>,
      <<111, 108, 108, 101, 104>> }

InitHistory ==
    \E w \in GOOD_WORDS :
        /\ game = Game_new(w)
        /\ guess = <<>>
        /\ out = NoCall
        /\ pin = [accepted |-> <<>>]
        /\ cli = CliOff
        /\ web = WebOff

GuessInSession(text) ==
    /\ out.kind # "Panic"
    /\ Len(pin.accepted) < MaxAccepted
    /\ \E r \in {make_guess(game, text)} :
          /\ game' = r.game
          /\ guess' = text
          /\ out' = r.ret
          /\ pin' = IF r.ret.kind = "Ok"
                    THEN [pin EXCEPT !.accepted = Append(@, to_ascii_uppercase(text))]
                    ELSE pin
    /\ UNCHANGED <<cli, web>>

NextHistory == \E text \in HistoryTexts : GuessInSession(text)

SpecHistory == InitHistory /\ [][NextHistory]_vars

---------------------------------------------------------------------------
(* wordle.rs: the variant of Game::make_guess, and one call of it next to   *)
(* one call of the make_guess of lib.rs on the same word and text: out      *)
(* holds the value lib.rs returns, pin.out the value wordle.rs returns.     *)

\* the validation at the head of make_guess in wordle.rs
wordle_validate(text) ==
    LET g == to_ascii_uppercase(text)
    IN  IF ~is_ascii(g) THEN Err("IncludesNonAscii")
        ELSE IF len(g) # 5 THEN Err("WrongWordLength")
        ELSE IF g \notin VALID_WORDS THEN Err("InvalidWord")
        ELSE Ok(<<>>)

\* the array optional_letters of make_guess in wordle.rs
wordle_optional_letters(pairs, word) ==
    << <<pairs[1][1], simple_check_letter_pair(pairs[1][1], pairs[1][2], word)>>,
       <<pairs[2][1], simple_check_letter_pair(pairs[2][1], pairs[2][2], word)>>,
       <<pairs[3][1], simple_check_letter_pair(pairs[3][1], pairs[3][2], word)>>,
       <<pairs[4][1], simple_check_letter_pair(pairs[4][1], pairs[4][2], word)>>,
       <<pairs[5][1], simple_check_letter_pair(pairs[5][1], pairs[5][2], word)>> >>

\* the closure given to optional_letters.map in wordle.rs: the Letter, with
\* "Panic" for its position when the unreachable! arm is taken
wordle_resolve_letter(ol, word, entry) ==
    LET orig_char == entry[1]
        opt_letter == entry[2]
    IN  IF opt_letter # None THEN opt_letter[1]
        ELSE LET instances_in_word == count_char(word, orig_char)
                 instances_in_correct_positions_in_guess ==
                     Cardinality({i \in 1..Len(ol) :
                         /\ ol[i][2] # None
                         /\ ol[i][2][1].letter = orig_char
                         /\ ol[i][2][1].position = "Correct"})
             IN  IF instances_in_word > instances_in_correct_positions_in_guess
                 THEN Letter_new(orig_char, "WrongPosition")
                 ELSE IF instances_in_word = instances_in_correct_positions_in_guess
                 THEN Letter_new(orig_char, "NotInWord")
                 ELSE Letter(orig_char, "Panic")

\* Game::make_guess of wordle.rs on the word: the value returned
wordle_make_guess(word, text) ==
    LET valid == wordle_validate(text)
    IN  IF valid.kind # "Ok" THEN valid
        ELSE LET pairs == zip_chars(to_ascii_uppercase(text), word)
             IN  IF Len(pairs) < 5 THEN Panic
                 ELSE LET ol == wordle_optional_letters(pairs, word)
                          letters == [i \in 1..5 |-> wordle_resolve_letter(ol, word, ol[i])]
                      IN  IF \E i \in 1..5 : letters[i].position = "Panic" THEN Panic
                          ELSE Ok(letters)

InitVariants ==
    \E w \in SecretWords, t \in Texts :
        /\ game = [word |-> w, keyboard |-> new_keyboard_map]
        /\ guess = t
        /\ out = NoCall
        /\ pin = [guess |-> t, out |-> NoCall, again |-> FALSE]
        /\ cli = CliOff
        /\ web = WebOff

ScoreBoth ==
    /\ out = NoCall
    /\ \E r \in {make_guess(game, guess)} :
          /\ game' = r.game
          /\ out' = r.ret
    /\ pin' = [pin EXCEPT !.out = wordle_make_guess(game.word, guess)]
    /\ UNCHANGED <<guess, cli, web>>

NextVariants == ScoreBoth

SpecVariants == InitVariants /\ [][NextVariants]_vars

---------------------------------------------------------------------------
(* Properties                                                              *)

\* the letters 'A'..'Z'
UpperLetters == 65..90

\* the number of indexes of w that hold c
Occurrences(c, w) == Cardinality({i \in DOMAIN w : w[i] = c})

\* the order None < NotInWord < WrongPosition < Correct
Rank(opt) ==
    IF opt = <<>> THEN 0
    ELSE IF opt = <<"NotInWord">> THEN 1
    ELSE IF opt = <<"WrongPosition">> THEN 2
    ELSE 3

\* the positions of the returned word w
Positions(w) == [i \in DOMAIN w |-> w[i].position]

\* the indexes of the returned word w that carry the letter c with a position in ps
Carrying(w, c, ps) == {i \in DOMAIN w : w[i].letter = c /\ w[i].position \in ps}

\* C1: position i of an accepted guess is Correct exactly when the
\* uppercased guess and the secret agree at i, so the Correct positions are
\* as many as the indexes where they agree.
C1_CorrectIffAgree ==
    out.kind = "Ok" =>
        LET G == to_ascii_uppercase(guess)
            S == game.word
        IN  /\ DOMAIN out.word = 1..5
            /\ \A i \in 1..5 : (out.word[i].position = "Correct") <=> (G[i] = S[i])
            /\ Cardinality({i \in 1..5 : out.word[i].position = "Correct"})
                 = Cardinality({i \in 1..5 : G[i] = S[i]})

\* "HySoN" against DYSON: four indexes agree and one does not
C1_Witness ==
    /\ out.kind = "Ok"
    /\ guess = <<72, 121, 83, 111, 78>>
    /\ game.word = <<68, 89, 83, 79, 78>>
    /\ Positions(out.word) = <<"NotInWord", "Correct", "Correct", "Correct", "Correct">>

\* C2: for every letter, the result positions carrying it that are
\* WrongPosition or Correct are at most its occurrences in the secret.
C2_CreditWithinSecretCount ==
    out.kind = "Ok" =>
        \A L \in UpperLetters :
            Cardinality(Carrying(out.word, L, {"WrongPosition", "Correct"}))
                <= Occurrences(L, game.word)

\* DADDY against DYSON: three D in the guess, one in the secret, one credited
C2_Witness ==
    /\ out.kind = "Ok"
    /\ guess = <<68, 65, 68, 68, 89>>
    /\ game.word = <<68, 89, 83, 79, 78>>
    /\ Cardinality(Carrying(out.word, 68, {"WrongPosition", "Correct"})) = 1
    /\ Cardinality(Carrying(out.word, 68, {"NotInWord"})) = 2

\* index i of guess G is deferred for the secret S: its letter is in S, not at i
Deferred(S, G, i) == G[i] # S[i] /\ \E k \in DOMAIN S : S[k] = G[i]

\* C3: a deferred position i with letter L is WrongPosition exactly when the
\* deferred positions before i with the letter L are fewer than the
\* occurrences of L in the secret minus the positions where L is Correct, and
\* NotInWord otherwise; so of two deferred positions with one letter the
\* later is WrongPosition only if the earlier is.
C3_GreedyInIndexOrder ==
    out.kind = "Ok" =>
        LET G == to_ascii_uppercase(guess)
            S == game.word
        IN  /\ \A i \in 1..5 : Deferred(S, G, i) =>
                  LET earlier == Cardinality({j \in 1..(i - 1) :
                                     Deferred(S, G, j) /\ G[j] = G[i]})
                      capacity == Occurrences(G[i], S)
                                    - Cardinality({j \in 1..5 : G[j] = G[i] /\ S[j] = G[i]})
                  IN  out.word[i].position =
                          IF earlier < capacity THEN "WrongPosition" ELSE "NotInWord"
            /\ \A i, j \in 1..5 :
                  (/\ i < j
                   /\ Deferred(S, G, i)
                   /\ Deferred(S, G, j)
                   /\ G[i] = G[j]
                   /\ out.word[j].position = "WrongPosition")
                  => out.word[i].position = "WrongPosition"

\* EERIE against BLEEP: the first two E take the two places, the last gets none
C3_Witness ==
    /\ out.kind = "Ok"
    /\ guess = <<69, 69, 82, 73, 69>>
    /\ game.word = <<66, 76, 69, 69, 80>>
    /\ Positions(out.word) =
         <<"WrongPosition", "WrongPosition", "NotInWord", "NotInWord", "NotInWord">>

\* the result the stated precedence gives for a text
Precedence(text) ==
    IF \E i \in DOMAIN text : text[i] >= 128 THEN Err("IncludesNonAscii")
    ELSE IF Len(text) # 5 THEN Err("WrongWordLength")
    ELSE IF to_ascii_uppercase(text) \notin VALID_WORDS THEN Err("InvalidWord")
    ELSE Ok(<<>>)

\* C4: is_valid_guess reports non-ASCII text first, then a length other than
\* 5 characters, then a word that is not in the list, and Ok otherwise; it
\* is Ok for every word of the list.
C4_ValidationPrecedence ==
    out.kind # "NoCall" =>
        /\ is_valid_guess(guess) = Precedence(guess)
        /\ (guess \in VALID_WORDS => is_valid_guess(guess) = Ok(<<>>))
        /\ (out.kind = "Err" => out = Precedence(guess))

\* "Schrödinger": overlong and not ASCII, reported as not ASCII
C4_Witness ==
    /\ guess = <<83, 99, 104, 114, 246, 100, 105, 110, 103, 101, 114>>
    /\ out = Err("IncludesNonAscii")

\* C5: a call whose guess fails validation returns the error and leaves the
\* game, keyboard and secret word, as it was.
C5_RejectedGuessChangesNothing ==
    [][is_valid_guess(guess').kind = "Err"
         => (game' = game /\ out' = is_valid_guess(guess'))]_vars

\* a rejected guess on a game whose keyboard already holds classifications
C5_Witness ==
    /\ out.kind = "Err"
    /\ \E c \in UpperLetters : game.keyboard[c] # None

\* C6: no call lowers a letter's keyboard entry in the order
\* None < NotInWord < WrongPosition < Correct.
C6_KeyboardNonDecreasing ==
    [][\A c \in UpperLetters : Rank(game.keyboard[c]) <= Rank(game'.keyboard[c])]_vars

\* WORDY against DYSON scores D as WrongPosition while the keyboard keeps
\* the Correct an earlier guess gave it
C6_Witness ==
    /\ out.kind = "Ok"
    /\ guess = <<87, 79, 82, 68, 89>>
    /\ game.word = <<68, 89, 83, 79, 78>>
    /\ out.word[4] = Letter(68, "WrongPosition")
    /\ game.keyboard[68] = Some("Correct")

\* C7: the keys of the keyboard are exactly 'A'..'Z' in every state, and
\* neither update_keyboard nor the lookups of the two front ends panic.
C7_KeyboardKeysAreAlphabet ==
    /\ DOMAIN game.keyboard = UpperLetters
    /\ out.kind # "Panic"
    /\ ~print_keyboard_panics(game.keyboard)
    /\ ~KeyboardComp_view_panics(game.keyboard)

\* a keyboard that has been updated for eight letters or more
C7_Witness ==
    /\ out.kind = "Ok"
    /\ Cardinality({c \in DOMAIN game.keyboard : game.keyboard[c] # None}) >= 8

\* the entry of highest rank among old and the positions c has in the word w
Best(old, w, c) ==
    LET cands == {old} \cup {Some(w[i].position) : i \in {j \in DOMAIN w : w[j].letter = c}}
    IN  CHOOSE x \in cands : \A y \in cands : Rank(y) <= Rank(x)

\* C8: after an accepted guess every letter's keyboard entry is the highest
\* of its old entry and the classifications the result gives the letter;
\* letters that are not in the guess keep their entry.
C8_KeyboardIsMaximum ==
    [][out'.kind = "Ok" =>
          /\ \A c \in UpperLetters :
                game'.keyboard[c] = Best(game.keyboard[c], out'.word, c)
          /\ \A c \in UpperLetters :
                (\A i \in DOMAIN guess' : to_ascii_uppercase(guess')[i] # c)
                => game'.keyboard[c] = game.keyboard[c]]_vars

\* "sassy" against DYSON: S is NotInWord, Correct, NotInWord and is recorded
\* as Correct; A is recorded as NotInWord
C8_Witness ==
    /\ out.kind = "Ok"
    /\ guess = <<115, 97, 115, 115, 121>>
    /\ game.word = <<68, 89, 83, 79, 78>>
    /\ out.word[4] = Letter(83, "NotInWord")
    /\ game.keyboard[83] = Some("Correct")
    /\ game.keyboard[65] = Some("NotInWord")

\* C9: a later call with the text of an earlier call of the session returns
\* what the earlier call returned, whatever was guessed in between.
C9_SameGuessSameResult ==
    (out.kind # "NoCall" /\ guess = pin.guess) => out = pin.out

\* the remembered text accepted a second time on a keyboard that guesses in
\* between have changed
C9_Witness ==
    /\ pin.again
    /\ guess = pin.guess
    /\ out.kind = "Ok"
    /\ \E c \in UpperLetters :
          /\ game.keyboard[c] # None
          /\ \A i \in DOMAIN guess : to_ascii_uppercase(guess)[i] # c

\* C10: make_guess returns the error of is_valid_guess when there is one and
\* Ok otherwise, so a text that is_valid_guess accepts never makes
\* make_guess return an error.
C10_ErrorsAreValidationErrors ==
    out.kind # "NoCall" =>
        LET valid == is_valid_guess(guess)
        IN  /\ out.kind = "Err" <=> valid.kind = "Err"
            /\ out.kind = "Err" => out.err = valid.err
            /\ valid.kind = "Ok" => out.kind = "Ok"

\* "olleh": five ASCII letters that are not a word of the list
C10_Witness ==
    /\ guess = <<111, 108, 108, 101, 104>>
    /\ out = Err("InvalidWord")
    /\ is_valid_guess(guess) = Err("InvalidWord")

\* C11: a valid text and its upper-case form get the same result, and the
\* letter at index i of the result is the upper-case form of the i-th
\* character of the text, a letter of 'A'..'Z'.
C11_CaseInsensitiveAligned ==
    (out.kind # "NoCall" /\ is_valid_guess(guess).kind = "Ok") =>
        /\ out.kind = "Ok"
        /\ out = make_guess([word |-> game.word, keyboard |-> new_keyboard_map],
                            to_ascii_uppercase(guess)).ret
        /\ DOMAIN out.word = 1..5
        /\ \A i \in 1..5 :
              /\ out.word[i].letter = char_to_ascii_uppercase(guess[i])
              /\ out.word[i].letter \in UpperLetters

\* "sassy" against EERIE: a lower-case text whose result carries S A S S Y
C11_Witness ==
    /\ out.kind = "Ok"
    /\ guess = <<115, 97, 115, 115, 121>>
    /\ game.word = <<69, 69, 82, 73, 69>>
    /\ [i \in 1..5 |-> out.word[i].letter] = <<83, 65, 83, 83, 89>>

\* C12: the five letters of the result are all Correct exactly when the
\* upper-case form of the guess is the secret word.
C12_AllCorrectIffSecret ==
    out.kind = "Ok" =>
        ((\A i \in DOMAIN out.word : out.word[i].position = "Correct")
            <=> to_ascii_uppercase(guess) = game.word)

\* "dySOn" against DYSON is all Correct
C12_Witness ==
    /\ out.kind = "Ok"
    /\ guess = <<100, 121, 83, 79, 110>>
    /\ game.word = <<68, 89, 83, 79, 78>>
    /\ Positions(out.word) = <<"Correct", "Correct", "Correct", "Correct", "Correct">>

\* C13: the state Game::new produces maps each of the 26 letters to None and
\* holds the upper-case form of a word of GOOD_WORDS.
C13_InitialGame ==
    out.kind = "NoCall" =>
        /\ DOMAIN game.keyboard = UpperLetters
        /\ \A c \in UpperLetters : game.keyboard[c] = <<>>
        /\ \E w \in GOOD_WORDS : game.word = to_ascii_uppercase(w)
        /\ \A i \in DOMAIN game.word : game.word[i] \in UpperLetters

\* the game just made, with the word RIRIE
C13_Witness ==
    /\ out.kind = "NoCall"
    /\ guess = <<>>
    /\ game.word = <<82, 73, 82, 73, 69>>

\* C14: no call of make_guess, accepted or rejected, changes the word of the
\* game.
C14_WordNeverChanges ==
    [][game'.word = game.word]_vars

\* EERIE is still the word after a guess other than EERIE was accepted and
\* classifications for five letters or more were recorded
C14_Witness ==
    /\ out.kind = "Ok"
    /\ game.word = <<69, 69, 82, 73, 69>>
    /\ to_ascii_uppercase(guess) # game.word
    /\ Cardinality({c \in UpperLetters : game.keyboard[c] # None}) >= 5

\* C18: the word of every game is an accepted guess that is scored all
\* Correct, whatever the keyboard holds.
C18_SecretIsWinningGuess ==
    /\ LET r == make_guess(game, game.word)
       IN  /\ r.ret.kind = "Ok"
           /\ \A i \in 1..5 : r.ret.word[i].position = "Correct"
    /\ (out.kind # "NoCall" /\ to_ascii_uppercase(guess) = game.word) =>
          /\ out.kind = "Ok"
          /\ \A i \in 1..5 : out.word[i].position = "Correct"

\* "eerie" submitted against EERIE after other guesses were accepted
C18_Witness ==
    /\ out.kind = "Ok"
    /\ guess = <<101, 101, 114, 105, 101>>
    /\ game.word = <<69, 69, 82, 73, 69>>
    /\ \A i \in 1..5 : out.word[i].position = "Correct"
    /\ game.keyboard[87] # None

\* C20: a valid guess never makes make_guess panic: for every letter the
\* Correct places are at most its occurrences in the secret, the remaining
\* places are never below 0, before and after the deferred letters are
\* resolved, and the unreachable arm is not taken.
C20_NoInternalFailure ==
    (out.kind # "NoCall" /\ is_valid_guess(guess).kind = "Ok") =>
        LET G == to_ascii_uppercase(guess)
            ol == optional_letters(zip_chars(G, game.word), game.word)
            iwm == instances_in_word_map(game.word)
            clm == correct_letters_map(ol, iwm)
            st == map_letters(ol, iwm, clm)
        IN  /\ out.kind = "Ok"
            /\ ~st.panic
            /\ \A c \in UpperLetters :
                  /\ clm[c][1] <= iwm[c]
                  /\ clm[c][2] >= 0
                  /\ st.clm[c][2] >= 0

\* "sassy" against DYSON: the one S of the secret is placed, so the other
\* two S find as many Correct places as occurrences
C20_Witness ==
    /\ out.kind = "Ok"
    /\ guess = <<115, 97, 115, 115, 121>>
    /\ game.word = <<68, 89, 83, 79, 78>>
    /\ Positions(out.word) =
         <<"NotInWord", "NotInWord", "Correct", "NotInWord", "WrongPosition">>

\* C19: simple_check_letter_pair returns Some(Correct) when the letter is
\* the expected letter, else Some(NotInWord) when the word does not hold the
\* letter, else None; None exactly for a letter that differs from the
\* expected one and is in the word; a returned Letter carries the letter
\* given.
C19_SimpleCheck ==
    out.kind = "Returned" =>
        LET letter == guess[1]
            expected == guess[2]
            inWord == \E k \in DOMAIN game.word : game.word[k] = letter
        IN  /\ letter = expected => out.word = <<[letter |-> letter, position |-> "Correct"]>>
            /\ (letter # expected /\ ~inWord)
                  => out.word = <<[letter |-> letter, position |-> "NotInWord"]>>
            /\ (letter # expected /\ inWord) => out.word = <<>>
            /\ out.word = <<>> <=> (letter # expected /\ inWord)
            /\ out.word # <<>> => out.word[1].letter = letter

\* R where E is expected, in EERIE: undecided
C19_Witness ==
    /\ out.kind = "Returned"
    /\ guess = <<82, 69>>
    /\ game.word = <<69, 69, 82, 73, 69>>
    /\ out.word = <<>>

\* the last accepted guess of the CLI was scored all Correct
AllCorrect(w) == Len(w) = 5 /\ \A i \in 1..5 : w[i].position = "Correct"

\* C15: the counter of the CLI starts at 6, goes down by 1 exactly in the
\* steps that accept a guess that does not win, is never below 0, and at 0
\* the loop ends with the out-of-guesses message; a session holds at most 6
\* accepted guesses, and at every prompt the past guesses and the counter
\* add up to 6.
C15_CliCounter ==
    /\ [](/\ cli.remaining_guesses \in 0..6
          /\ Len(cli.past_guesses) <= 6
          /\ (Len(cli.past_guesses) = 0 => cli.remaining_guesses = 6)
          /\ (cli.pc = "prompt" =>
                Len(cli.past_guesses) + cli.remaining_guesses = 6)
          /\ (cli.remaining_guesses = 0 => cli.pc \in {"loop", "lost"})
          /\ (cli.pc = "lost" =>
                cli.remaining_guesses = 0 /\ cli.message = "Out of guesses!"))
    /\ [][/\ (cli'.remaining_guesses = cli.remaining_guesses
               \/ cli'.remaining_guesses = cli.remaining_guesses - 1)
          /\ (cli'.remaining_guesses = cli.remaining_guesses - 1
               <=> (/\ cli.pc = "prompt"
                    /\ out'.kind = "Ok"
                    /\ Len(cli'.past_guesses) = Len(cli.past_guesses) + 1
                    /\ ~AllCorrect(out'.word)))
          /\ (cli.remaining_guesses = 0 => cli'.pc = "lost")]_vars

\* six guesses accepted, none of them the word: out of guesses
C15_Witness ==
    /\ cli.pc = "lost"
    /\ cli.remaining_guesses = 0
    /\ Len(cli.past_guesses) = 6
    /\ cli.message = "Out of guesses!"

\* C16: the guesses list of the web Model never holds more than 6 results.
C16_AtMostSixGuesses == Len(web.guesses) <= 6

\* a win among the guesses of the web Model
WebHasWon == \E i \in 1..Len(web.guesses) : AllCorrect(web.guesses[i])

\* C17: once a guess of the web Model has been scored all Correct, no step
\* appends to the guesses list or changes the keyboard.
C17_NoGuessAfterWin ==
    [][WebHasWon => /\ web'.guesses = web.guesses
                    /\ game'.keyboard = game.keyboard]_vars

\* the place of an Option<Position> in None < NotInWord < WrongPosition < Correct
Place(o) ==
    IF o = None THEN 0
    ELSE CASE o[1] = "NotInWord" -> 1
           [] o[1] = "WrongPosition" -> 2
           [] o[1] = "Correct" -> 3

\* the reverse of an Ordering
Reverse(o) ==
    CASE o = "Less" -> "Greater"
      [] o = "Greater" -> "Less"
      [] OTHER -> o

\* C21: cmp is a total order with None < NotInWord < WrongPosition < Correct:
\* a value is Equal to itself, cmp(a, b) is the reverse of cmp(b, a), the
\* order is transitive, Equal is the derived ==, and cmp does not panic.
C21_CmpTotalOrder ==
    out.kind = "Returned" =>
        LET a == guess[1]
            b == guess[2]
            c == guess[3]
            r == out.word
        IN  /\ \A k \in DOMAIN r : r[k] \in {"Less", "Equal", "Greater"}
            /\ r.aa = "Equal"
            /\ r.ab = Reverse(r.ba)
            /\ (r.ab = "Less" /\ r.bc = "Less") => r.ac = "Less"
            /\ (r.ab = "Equal" /\ r.bc = "Equal") => r.ac = "Equal"
            /\ (r.ab # "Greater" /\ r.bc # "Greater") => r.ac # "Greater"
            /\ r.ab = "Equal" <=> a = b
            /\ r.ab = "Less" <=> Place(a) < Place(b)
            /\ r.ab = "Greater" <=> Place(a) > Place(b)

\* NotInWord against None and Correct: Greater, Less, and None below Correct
C21_Witness ==
    /\ out.kind = "Returned"
    /\ guess = <<None, Some("NotInWord"), Some("Correct")>>
    /\ out.word.ab = "Less"
    /\ out.word.ba = "Greater"
    /\ out.word.bc = "Less"
    /\ out.word.ac = "Less"

\* the ASCII letters
AsciiLetters == (65..90) \cup (97..122)

\* C22: in the web Model the current guess never holds more than 5
\* characters and holds only ASCII letters; update passes a guess to
\* make_guess only when the current guess has exactly 5 characters, so
\* make_guess never returns WrongWordLength or IncludesNonAscii there and no
\* unreachable! arm runs.
C22_WebGuessWellFormed ==
    /\ [](/\ (web.current_guess # None =>
                /\ Len(web.current_guess[1]) <= 5
                /\ \A i \in 1..Len(web.current_guess[1]) :
                      web.current_guess[1][i] \in AsciiLetters)
          /\ ~web.panicked
          /\ (out # NoCall =>
                /\ Len(guess) = 5
                /\ out.kind \in {"Ok", "Err"}
                /\ out.kind = "Err" => out = Err("InvalidWord")))
    /\ [][(guess' # guess \/ out' # out) =>
            /\ web.current_guess # None
            /\ Len(web.current_guess[1]) = 5
            /\ guess' = to_uppercase(web.current_guess[1])]_vars

\* "olleh" typed in full and sent: make_guess answered InvalidWord
C22_Witness ==
    /\ web.current_guess = Some(<<111, 108, 108, 101, 104>>)
    /\ guess = <<79, 76, 76, 69, 72>>
    /\ out = Err("InvalidWord")
    /\ web.bad_guess
    /\ ~web.panicked

\* C23: in the web Model an accepted guess appends exactly one result to the
\* guesses list and resets the current guess to None; a guess rejected as
\* InvalidWord, and a SendEnter on fewer than 5 letters, set the bad-guess
\* flag and leave the guesses list, the current guess and the keyboard as
\* they were.
C23_SubmitFrame ==
    /\ [](web.panicked \/ \A m \in {update_SendEnter(TheModel)} :
            /\ m.call = None <=>
                 (web.current_guess = None \/ Len(web.current_guess[1]) # 5)
            /\ (m.call # None /\ m.call[1].ret.kind = "Ok") =>
                 /\ m.web.guesses = Append(web.guesses, m.call[1].ret.word)
                 /\ m.web.current_guess = None
                 /\ m.web.bad_guess = web.bad_guess
            /\ (m.call = None \/ m.call[1].ret = Err("InvalidWord")) =>
                 /\ m.web.bad_guess
                 /\ m.web.guesses = web.guesses
                 /\ m.web.current_guess = web.current_guess
                 /\ m.game.keyboard = game.keyboard)
    /\ [][/\ web'.guesses # web.guesses =>
               /\ out'.kind = "Ok"
               /\ web'.guesses = Append(web.guesses, out'.word)
               /\ web'.current_guess = None
          /\ (~web.bad_guess /\ web'.bad_guess) =>
               /\ web'.guesses = web.guesses
               /\ web'.current_guess = web.current_guess
               /\ game'.keyboard = game.keyboard
          /\ game'.keyboard # game.keyboard => web'.guesses # web.guesses]_vars

\* one guess accepted, then Enter on "ee": flagged, and the two letters stay
C23_Witness ==
    /\ Len(web.guesses) = 1
    /\ out.kind = "Ok"
    /\ web.current_guess = Some(<<101, 101>>)
    /\ web.bad_guess

\* C24: of the 6 rows of the board, a row below the number of guesses is
\* Concrete with the result of its index, the row at the number of guesses
\* is the CurrentGuess row, the later rows are Empty; at most one row is a
\* CurrentGuess row.
C24_BoardRows ==
    out.kind = "Returned" =>
        LET rows == out.word
            n == Len(web.guesses)
        IN  /\ DOMAIN rows = 0..5
            /\ \A index \in 0..5 :
                  /\ index < n =>
                        /\ rows[index].state = "Concrete"
                        /\ rows[index].letters = web.guesses[index + 1]
                  /\ index = n =>
                        /\ rows[index].state = "CurrentGuess"
                        /\ rows[index].letters =
                              (IF web.current_guess = None THEN <<>>
                               ELSE web.current_guess[1])
                  /\ index > n => rows[index].state = "Empty"
            /\ Cardinality({index \in 0..5 : rows[index].state = "CurrentGuess"}) <= 1

\* two guesses made and "ee" typed: rows 0 and 1 Concrete, row 2 the current
\* guess, rows 3 to 5 Empty
C24_Witness ==
    /\ out.kind = "Returned"
    /\ Len(web.guesses) = 2
    /\ web.current_guess = Some(<<101, 101>>)
    /\ out.word[1].state = "Concrete"
    /\ out.word[2] = [state |-> "CurrentGuess", letters |-> <<101, 101>>,
                      should_shake |-> web.bad_guess]
    /\ out.word[3].state = "Empty"
    /\ out.word[5].state = "Empty"

\* C25: in the CLI a guess scored all Correct ends the game at once with the
\* congratulation message: no prompt follows, the counter is not taken down,
\* and a correct guess on the 6th attempt is a win, not out of guesses.
C25_WinEndsGame ==
    /\ [](/\ (cli.pc = "won" =>
                /\ cli.message = "Congratulations!"
                /\ Len(cli.past_guesses) >= 1
                /\ AllCorrect(cli.past_guesses[Len(cli.past_guesses)])
                /\ cli.remaining_guesses >= 1
                /\ Len(cli.past_guesses) + cli.remaining_guesses = 7)
          /\ (cli.pc # "won" =>
                \A i \in 1..Len(cli.past_guesses) : ~AllCorrect(cli.past_guesses[i])))
    /\ [][/\ cli.pc # "won"
          /\ (Len(cli'.past_guesses) > Len(cli.past_guesses)
                /\ AllCorrect(cli'.past_guesses[Len(cli'.past_guesses)])) =>
                /\ cli'.pc = "won"
                /\ cli'.remaining_guesses = cli.remaining_guesses]_vars

\* five guesses that miss, then the word on the 6th attempt: a win
C25_Witness ==
    /\ cli.pc = "won"
    /\ Len(cli.past_guesses) = 6
    /\ cli.remaining_guesses = 1
    /\ cli.prefix = 6
    /\ cli.message = "Congratulations!"

\* C26: in the CLI create_render_config is only called with a counter in
\* 1..6, so its unreachable! arm never runs, and the prefix shown for the
\* counter r is attempt 7 - r of 6.
C26_PromptPrefix ==
    /\ [](/\ cli.pc # "panic"
          /\ (cli.pc = "prompt" =>
                /\ cli.remaining_guesses \in 1..6
                /\ cli.prefix = 7 - cli.remaining_guesses))
    /\ [][(cli.pc = "loop" /\ cli'.pc # "lost") =>
            /\ cli.remaining_guesses \in 1..6
            /\ ~create_render_config(cli.remaining_guesses).panic
            /\ cli'.pc = "prompt"
            /\ cli'.prefix = 7 - cli.remaining_guesses]_vars

\* the prompt of the last attempt: counter 1, prefix (6/6)
C26_Witness ==
    /\ cli.pc = "prompt"
    /\ cli.remaining_guesses = 1
    /\ cli.prefix = 6
    /\ Len(cli.past_guesses) = 5

\* C27: for every letter, the result positions carrying it that are Correct
\* or WrongPosition are exactly as many as the smaller of its occurrences in
\* the guess and its occurrences in the secret.
C27_CreditIsMinimum ==
    out.kind = "Ok" =>
        LET G == to_ascii_uppercase(guess)
            S == game.word
        IN  \A L \in UpperLetters :
                Cardinality(Carrying(out.word, L, {"WrongPosition", "Correct"}))
                    = (IF Occurrences(L, G) < Occurrences(L, S)
                       THEN Occurrences(L, G) ELSE Occurrences(L, S))

\* EERIE against BLEEP: three E in the guess, two in the secret, two credited
\* and none of them Correct
C27_Witness ==
    /\ out.kind = "Ok"
    /\ to_ascii_uppercase(guess) = <<69, 69, 82, 73, 69>>
    /\ game.word = <<66, 76, 69, 69, 80>>
    /\ Cardinality(Carrying(out.word, 69, {"WrongPosition"})) = 2
    /\ Cardinality(Carrying(out.word, 69, {"Correct"})) = 0
    /\ Cardinality(Carrying(out.word, 69, {"NotInWord"})) = 1

\* the guesses accepted in the session
Accepted == {pin.accepted[i] : i \in 1..Len(pin.accepted)}

\* C28: with the secret S, the keyboard entry of a letter L is None exactly
\* when no accepted guess holds L, NotInWord exactly when an accepted guess
\* holds L and S does not, Correct exactly when an accepted guess holds L at
\* an index where S holds L, and WrongPosition exactly in the case left.
C28_KeyboardSound ==
    \A L \in UpperLetters :
        LET S == game.word
            guessed == \E g \in Accepted : \E i \in DOMAIN g : g[i] = L
            inS == \E k \in DOMAIN S : S[k] = L
            matched == \E g \in Accepted : \E i \in DOMAIN g : g[i] = L /\ S[i] = L
        IN  /\ game.keyboard[L] = None <=> ~guessed
            /\ game.keyboard[L] = Some("NotInWord") <=> (guessed /\ ~inS)
            /\ game.keyboard[L] = Some("Correct") <=> matched
            /\ game.keyboard[L] = Some("WrongPosition") <=> (guessed /\ inS /\ ~matched)

\* RIRIE then EERIE against BLEEP: E in the word and never in place, R and I
\* not in the word, B never guessed
C28_Witness ==
    /\ game.word = <<66, 76, 69, 69, 80>>
    /\ pin.accepted = <<<<82, 73, 82, 73, 69>>, <<69, 69, 82, 73, 69>>>>
    /\ game.keyboard[69] = Some("WrongPosition")
    /\ game.keyboard[82] = Some("NotInWord")
    /\ game.keyboard[73] = Some("NotInWord")
    /\ game.keyboard[66] = None

RECURSIVE KeyboardOfSet(_, _)
\* the keyboard of the game g after the guesses of the set gs, taken in the
\* order CHOOSE gives them, each one once
KeyboardOfSet(g, gs) ==
    IF gs = {} THEN g.keyboard
    ELSE LET x == CHOOSE y \in gs : TRUE
         IN  KeyboardOfSet(make_guess(g, x).game, gs \ {x})

RECURSIVE KeyboardOfSeq(_, _, _)
\* the keyboard of the game g after the guesses of the sequence gs from its
\* index i down to its first
KeyboardOfSeq(g, gs, i) ==
    IF i < 1 THEN g.keyboard
    ELSE KeyboardOfSeq(make_guess(g, gs[i]).game, gs, i - 1)

\* C29: the keyboard of a session depends only on the set of its accepted
\* guesses: it is the keyboard the guesses of that set give in one fixed
\* order, each made once, and the one they give in the reverse of the
\* order of the session; a guess accepted before leaves the keyboard as it is.
C29_KeyboardOrderFree ==
    /\ [](\A fresh \in {[game EXCEPT !.keyboard = new_keyboard_map]} :
            /\ game.keyboard = KeyboardOfSet(fresh, Accepted)
            /\ game.keyboard = KeyboardOfSeq(fresh, pin.accepted, Len(pin.accepted)))
    /\ [][(out'.kind = "Ok" /\ to_ascii_uppercase(guess') \in Accepted) =>
            game'.keyboard = game.keyboard]_vars

\* BLEEP, EERIE, BLEEP again, against RIRIE
C29_Witness ==
    /\ game.word = <<82, 73, 82, 73, 69>>
    /\ pin.accepted = <<<<66, 76, 69, 69, 80>>, <<69, 69, 82, 73, 69>>,
                        <<66, 76, 69, 69, 80>>>>
    /\ game.keyboard[69] = Some("Correct")
    /\ game.keyboard[82] = Some("Correct")
    /\ game.keyboard[66] = Some("NotInWord")

\* C30: make_guess of wordle.rs returns what make_guess of lib.rs returns:
\* the same 5 classifications for a valid guess, the same error for an
\* invalid one.
C30_VariantsAgree == out # NoCall => pin.out = out

============================================================================
